---------------------------- MODULE Spec2Model ----------------------------
(***************************************************************************)
(* Credit-agreement assembly pipeline (src/package/lambda_function.py):    *)
(* merge of the six record sets, per-template field mapping, formatting,   *)
(* defaults overlay, Textract key/value extraction, Bedrock narrative      *)
(* generation and emission of one output record per processed row.         *)
(*                                                                         *)
(* Values.  A cell of a data frame (and any Python value held in a         *)
(* rendering context) is a tagged record:                                  *)
(*   Null      NaN / None                                                  *)
(*   Num(c)    a number, held as an integer count of hundredths            *)
(*   Str(s)    a string                                                    *)
(*   Raise(e)  the outcome "exception e was raised" of an evaluation       *)
(***************************************************************************)
EXTENDS Integers, Sequences, FiniteSets, TLC

VARIABLES
    tables,          \* the six CSV record sets read from S3 (name -> table)
    catalog,         \* credit_agreement_templates.json: sequence of templates
    documents,       \* what analyze_document returns for each S3 key
    mappings,        \* template_mappings (the field-mapping catalog)
    pc,              \* position of main()
    df,              \* the merged data frame: sequence of rows
    template_map,    \* template id -> template info
    idx,             \* 1-based position of the loop `for _, row in df.iterrows()`
    context,         \* rendering context of the current row
    cam_text,        \* local cam_text of the current row
    response,        \* local response of extract_from_textract (its Blocks)
    textract_fields, \* local textract_fields: sequence of <<label, value>>
    output_rows,     \* output_rows
    saved,           \* the body handed to put_object (or Null)
    error,           \* the exception that ended main(), or "none"
    trace            \* history: the external calls and row outcomes so far

vars == <<tables, catalog, documents, mappings, pc, df, template_map, idx,
          context, cam_text, response, textract_fields, output_rows, saved,
          error, trace>>

---------------------------------------------------------------------------
(* Bounds of the model *)

\* largest number of loan_applications rows
MaxApps == 2
\* largest number of rows of a right-hand record set in the merge scenarios
MaxRight == 2
\* largest number of KEY/VALUE pairs in an analysed document
MaxPairs == 2

---------------------------------------------------------------------------
(* Python values *)

Null == [t |-> "null"]
Num(c) == [t |-> "num", n |-> c]
Str(s) == [t |-> "str", s |-> s]
Raise(e) == [t |-> "raise", exc |-> e]

\* pd.notnull(val)
notnull(val) == val.t # "null"

IsRaise(val) == val.t = "raise"

\* bool(val) as used by `if cam_text:`
Truthy(val) ==
    CASE val.t = "null" -> FALSE
      [] val.t = "str" -> val.s # ""
      [] val.t = "num" -> val.n # 0
      [] OTHER -> FALSE

---------------------------------------------------------------------------
(* Strings *)

Char(s, i) == SubSeq(s, i, i)

IsSpace(c) == c \in {" ", "\t", "\n"}

RECURSIVE LStrip(_)
LStrip(s) ==
    IF Len(s) = 0 THEN ""
    ELSE IF IsSpace(Char(s, 1)) THEN LStrip(SubSeq(s, 2, Len(s)))
    ELSE s

RECURSIVE RStrip(_)
RStrip(s) ==
    IF Len(s) = 0 THEN ""
    ELSE IF IsSpace(Char(s, Len(s))) THEN RStrip(SubSeq(s, 1, Len(s) - 1))
    ELSE s

\* str.strip()
strip(s) == RStrip(LStrip(s))

DigitChar(d) == Char("0123456789", d + 1)

IsDigit(c) == \E d \in 0..9 : DigitChar(d) = c

DigitVal(c) == CHOOSE d \in 0..9 : DigitChar(d) = c

RECURSIVE NatStr(_)
NatStr(n) == IF n < 10 THEN DigitChar(n) ELSE NatStr(n \div 10) \o DigitChar(n % 10)

Pad2(n) == DigitChar(n \div 10) \o DigitChar(n % 10)

Pad3(n) == DigitChar(n \div 100) \o Pad2(n % 100)

\* the "," grouping of the format spec ",.2f"
RECURSIVE Grouped(_)
Grouped(n) == IF n < 1000 THEN NatStr(n) ELSE Grouped(n \div 1000) \o "," \o Pad3(n % 1000)

Abs(c) == IF c < 0 THEN -c ELSE c

Sign(c) == IF c < 0 THEN "-" ELSE ""

\* f"{x:,.2f}" for x = c/100
Fixed2Grouped(c) == Sign(c) \o Grouped(Abs(c) \div 100) \o "." \o Pad2(Abs(c) % 100)

\* f"{x:.2f}" for x = c/100
Fixed2(c) == Sign(c) \o NatStr(Abs(c) \div 100) \o "." \o Pad2(Abs(c) % 100)

RECURSIVE AllDigits(_)
AllDigits(s) == Len(s) = 0 \/ (IsDigit(Char(s, 1)) /\ AllDigits(SubSeq(s, 2, Len(s))))

RECURSIVE DigitsVal(_)
DigitsVal(s) ==
    IF Len(s) = 0 THEN 0
    ELSE 10 * DigitsVal(SubSeq(s, 1, Len(s) - 1)) + DigitVal(Char(s, Len(s)))

\* float(val): a number is itself, a string of decimal digits parses, any
\* other string raises ValueError, None raises TypeError.
float(val) ==
    CASE val.t = "num" -> val
      [] val.t = "str" ->
            IF Len(val.s) > 0 /\ AllDigits(val.s) THEN Num(100 * DigitsVal(val.s))
            ELSE Raise("ValueError")
      [] val.t = "null" -> Raise("TypeError")
      [] OTHER -> val

\* str(val) as an f-string renders it: NaN prints as "nan"
PyStr(val) ==
    CASE val.t = "str" -> val.s
      [] val.t = "null" -> "nan"
      [] val.t = "num" ->
            IF val.n % 100 = 0 THEN Sign(val.n) \o NatStr(Abs(val.n) \div 100)
            ELSE Fixed2(val.n)
      [] OTHER -> "?"

---------------------------------------------------------------------------
(* Formatting helpers *)

format_currency(val) ==
    IF notnull(val)
    THEN IF IsRaise(float(val)) THEN Str("N/A")
         ELSE Str("$" \o Fixed2Grouped(float(val).n))
    ELSE Str("N/A")

format_percentage(val) ==
    IF notnull(val)
    THEN IF IsRaise(float(val)) THEN Str("N/A")
         ELSE Str(Fixed2(float(val).n) \o "%")
    ELSE Str("N/A")

---------------------------------------------------------------------------
(* Data frames: a table is [cols |-> set of column names, rows |-> sequence *)
(* of rows], a row is a function from the column names to cells.           *)

\* row.get(col, default)
Get(row, col, default) == IF col \in DOMAIN row THEN row[col] ELSE default

\* DataFrame.drop(columns=cols, errors='ignore')
drop(T, cols) ==
    [cols |-> T.cols \ cols,
     rows |-> [i \in 1..Len(T.rows) |-> [c \in T.cols \ cols |-> T.rows[i][c]]]]

\* pandas renames a non-key column that both sides carry: c_x (left), c_y (right)
SuffixX(c, ov) == IF c \in ov THEN c \o "_x" ELSE c

SuffixY(c, ov) == IF c \in ov THEN c \o "_y" ELSE c

JoinRow(l, r, hasR, Lc, Rc, on) ==
    LET ov == (Lc \cap Rc) \ {on}
        lnames == {SuffixX(c, ov) : c \in Lc}
        rnames == {SuffixY(c, ov) : c \in Rc \ {on}}
    IN  [c \in lnames \cup rnames |->
            IF c \in lnames THEN l[CHOOSE o \in Lc : SuffixX(o, ov) = c]
            ELSE IF hasR THEN r[CHOOSE o \in Rc \ {on} : SuffixY(o, ov) = c]
            ELSE Null]

RECURSIVE MergeRows(_, _, _, _)
MergeRows(lrows, L, R, on) ==
    IF lrows = <<>> THEN <<>>
    ELSE LET l == Head(lrows)
             m == SelectSeq(R.rows, LAMBDA r : r[on] = l[on])
         IN  (IF m = <<>> THEN <<JoinRow(l, l, FALSE, L.cols, R.cols, on)>>
              ELSE [j \in 1..Len(m) |-> JoinRow(l, m[j], TRUE, L.cols, R.cols, on)])
             \o MergeRows(Tail(lrows), L, R, on)

\* left.merge(right, on=on, how="left"): every left row is kept, once per
\* matching right row, or once with nulls when no right row matches
merge(L, R, on) ==
    LET ov == (L.cols \cap R.cols) \ {on}
    IN  [cols |-> {SuffixX(c, ov) : c \in L.cols} \cup {SuffixY(c, ov) : c \in R.cols \ {on}},
         rows |-> MergeRows(L.rows, L, R, on)]

DropJoinKeys(T) == drop(T, {"client_id", "requested_amount"})

\* the merge chain of main()
MergeChain(t) ==
    merge(merge(merge(merge(merge(t.loan_applications, t.clients, "client_id"),
                            DropJoinKeys(t.borrowing_requests), "application_id"),
                      DropJoinKeys(t.underwriting_decisions), "application_id"),
                DropJoinKeys(t.credit_approval_memos), "application_id"),
          DropJoinKeys(t.term_sheets), "application_id")

---------------------------------------------------------------------------
(* Templates, defaults and the field-mapping catalog *)

\* {t["template_id"]: {...} for t in templates}: a later entry of the
\* catalog replaces an earlier one with the same id
BuildTemplateMap(templates) ==
    [id \in {templates[i].template_id : i \in 1..Len(templates)} |->
        LET last == CHOOSE i \in 1..Len(templates) :
                        /\ templates[i].template_id = id
                        /\ \A j \in (i + 1)..Len(templates) : templates[j].template_id # id
        IN  [template |-> templates[last].template_content,
             name |-> templates[last].template_name]]

\* datetime.date.today().strftime("%Y-%m-%d"), fixed for the run
AgreementDate == "2025-06-01"

defaults ==
    [agreement_date |-> Str(AgreementDate),
     lender_name |-> Str("Citi Private Bank"),
     payment_day |-> Str("1st"),
     grace_period |-> Str("15"),
     state_jurisdiction |-> Str("New York")]

Col(src) == [kind |-> "col", src |-> src]

Fn(name) == [kind |-> "fn", fn |-> name]

template_mappings ==
    [x \in {"TEMPLATE-001", "TEMPLATE-002", "TEMPLATE-003"} |->
        CASE x = "TEMPLATE-001" ->
                [borrower_name |-> Col("full_name"),
                 loan_amount |-> Col("requested_amount"),
                 interest_rate |-> Col("recommended_rate"),
                 loan_term |-> Col("term_years"),
                 monthly_payment |-> Col("estimated_monthly_payment"),
                 annual_income |-> Col("annual_income"),
                 credit_score |-> Col("credit_score"),
                 ltv_ratio |-> Col("ltv_ratio"),
                 employment_status |-> Col("employment_status"),
                 borrower_address |-> Fn("borrower_address"),
                 property_address |-> Col("property_address"),
                 property_value |-> Col("property_value"),
                 down_payment |-> Fn("down_payment")]
          [] x = "TEMPLATE-002" ->
                [borrower_name |-> Col("full_name"),
                 loan_amount |-> Col("approved_amount"),
                 interest_rate |-> Col("final_rate"),
                 loan_term |-> Col("term_months"),
                 monthly_payment |-> Col("monthly_installment"),
                 annual_income |-> Col("annual_income"),
                 credit_score |-> Col("credit_score"),
                 loan_purpose |-> Col("loan_purpose")]
          [] x = "TEMPLATE-003" ->
                [borrower_name |-> Col("full_name"),
                 loan_amount |-> Col("requested_amount"),
                 interest_rate |-> Col("interest_percent"),
                 loan_term |-> Col("loan_duration_years"),
                 monthly_payment |-> Col("monthly_repayment"),
                 collateral_details |-> Col("collateral_details")]]

\* row["template_id"] if pd.notnull(row.get("template_id")) else "TEMPLATE-001"
ResolveTemplateId(row) ==
    IF notnull(Get(row, "template_id", Null)) THEN row["template_id"]
    ELSE Str("TEMPLATE-001")

\* a variant that also skips a template id without a rule set
HasTemplateAndRuleSet(tmap, tid) ==
    tid.t = "str" /\ tid.s \in DOMAIN tmap /\ tid.s \in DOMAIN template_mappings

\* template_map.get(template_id) is not None
HasTemplate(tmap, tid) == tid.t = "str" /\ tid.s \in DOMAIN tmap

\* template_mappings.get(template_id, {})
MappingOf(maps, tid) ==
    IF tid.t = "str" /\ tid.s \in DOMAIN maps THEN maps[tid.s] ELSE <<>>

---------------------------------------------------------------------------
(* Computed rules and context resolution *)

AddressParts == <<"address_line1", "city", "state", "zip_code">>

\* lambda r: f"{r['address_line1']}, {r['city']}, {r['state']} {r['zip_code']}"
borrower_address(r) ==
    IF \E i \in 1..4 : AddressParts[i] \notin DOMAIN r THEN Raise("KeyError")
    ELSE Str(PyStr(r["address_line1"]) \o ", " \o PyStr(r["city"]) \o ", "
             \o PyStr(r["state"]) \o " " \o PyStr(r["zip_code"]))

\* lambda r: float(r["property_value"]) - float(r["requested_amount"])
\*           if pd.notnull(r["property_value"]) and pd.notnull(r["requested_amount"])
\*           else "N/A"
down_payment(r) ==
    IF "property_value" \notin DOMAIN r THEN Raise("KeyError")
    ELSE IF ~notnull(r["property_value"]) THEN Str("N/A")
    ELSE IF "requested_amount" \notin DOMAIN r THEN Raise("KeyError")
    ELSE IF ~notnull(r["requested_amount"]) THEN Str("N/A")
    ELSE IF IsRaise(float(r["property_value"])) THEN float(r["property_value"])
    ELSE IF IsRaise(float(r["requested_amount"])) THEN float(r["requested_amount"])
    ELSE Num(float(r["property_value"]).n - float(r["requested_amount"]).n)

\* src(row) if callable(src) else row.get(src, "N/A")
EvalRule(rule, row) ==
    IF rule.kind = "fn"
    THEN IF rule.fn = "borrower_address" THEN borrower_address(row)
         ELSE down_payment(row)
    ELSE Get(row, rule.src, Str("N/A"))

\* the dict comprehension of main(): a raising rule raises out of it
MappedContext(mapping, row) == [f \in DOMAIN mapping |-> EvalRule(mapping[f], row)]

MappingRaises(mapping, row) == \E f \in DOMAIN mapping : IsRaise(EvalRule(mapping[f], row))

MappingError(mapping, row) ==
    EvalRule(mapping[CHOOSE f \in DOMAIN mapping : IsRaise(EvalRule(mapping[f], row))], row).exc

CurrencyFields == {"loan_amount", "monthly_payment", "property_value", "down_payment"}

PercentFields == {"interest_rate", "ltv_ratio"}

\* the two formatting loops of main()
ApplyFormatting(ctx) ==
    [f \in DOMAIN ctx |->
        IF f \in CurrencyFields THEN format_currency(ctx[f])
        ELSE IF f \in PercentFields THEN format_percentage(ctx[f])
        ELSE ctx[f]]

\* dict.update(other): every key of other is written, present or not
Update(ctx, other) ==
    [f \in DOMAIN ctx \cup DOMAIN other |-> IF f \in DOMAIN other THEN other[f] ELSE ctx[f]]

\* context as it stands after context.update(defaults)
ResolveContext(mapping, row) == Update(ApplyFormatting(MappedContext(mapping, row)), defaults)

---------------------------------------------------------------------------
(* extract_from_textract.  A block of response['Blocks'] is a record       *)
(* [Id, BlockType, EntityTypes, Relationships, HasText, Text]; a block     *)
(* without a 'Relationships' key has Relationships = <<>>, one without a   *)
(* 'Text' key has HasText = FALSE.  A relationship is [Type, Ids].         *)

\* next((b['Text'] for b in response['Blocks'] if b['Id'] == cid and 'Text' in b), '')
FirstText(blocks, cid) ==
    IF \E i \in 1..Len(blocks) : blocks[i].Id = cid /\ blocks[i].HasText
    THEN blocks[CHOOSE i \in 1..Len(blocks) :
                    /\ blocks[i].Id = cid /\ blocks[i].HasText
                    /\ \A j \in 1..(i - 1) : ~(blocks[j].Id = cid /\ blocks[j].HasText)].Text
    ELSE ""

RECURSIVE IdsText(_, _)
IdsText(blocks, ids) ==
    IF ids = <<>> THEN "" ELSE FirstText(blocks, Head(ids)) \o IdsText(blocks, Tail(ids))

\* the nested loops over the CHILD relationships of a block
RECURSIVE ChildText(_, _)
ChildText(blocks, rels) ==
    IF rels = <<>> THEN ""
    ELSE (IF Head(rels).Type = "CHILD" THEN IdsText(blocks, Head(rels).Ids) ELSE "")
         \o ChildText(blocks, Tail(rels))

HasValueRel(block) == \E i \in 1..Len(block.Relationships) : block.Relationships[i].Type = "VALUE"

FirstValueRel(block) ==
    block.Relationships[CHOOSE i \in 1..Len(block.Relationships) :
        /\ block.Relationships[i].Type = "VALUE"
        /\ \A j \in 1..(i - 1) : block.Relationships[j].Type # "VALUE"]

\* blocks = {block['Id']: block for ...}; blocks.get(id): the last block with that Id
HasBlock(blocks, id) == \E i \in 1..Len(blocks) : blocks[i].Id = id

BlockById(blocks, id) ==
    blocks[CHOOSE i \in 1..Len(blocks) :
        /\ blocks[i].Id = id
        /\ \A j \in (i + 1)..Len(blocks) : blocks[j].Id # id]

IsKeyBlock(block) == block.BlockType = "KEY_VALUE_SET" /\ "KEY" \in block.EntityTypes

\* rel['Ids'][0] of an empty Ids list raises IndexError
KeyBlockRaises(block) == HasValueRel(block) /\ FirstValueRel(block).Ids = <<>>

KeyText(blocks, block) == strip(ChildText(blocks, block.Relationships))

ValText(blocks, block) ==
    IF HasValueRel(block) /\ Head(FirstValueRel(block).Ids) # ""
       /\ HasBlock(blocks, Head(FirstValueRel(block).Ids))
    THEN strip(ChildText(blocks, BlockById(blocks, Head(FirstValueRel(block).Ids)).Relationships))
    ELSE ""

\* a variant in which the first of two equal labels keeps its value
PutFieldFirstWins(fields, k, v) ==
    IF \E i \in 1..Len(fields) : fields[i][1] = k THEN fields ELSE Append(fields, <<k, v>>)

\* fields[k] = v on a dict that keeps insertion order
PutField(fields, k, v) ==
    IF \E i \in 1..Len(fields) : fields[i][1] = k
    THEN [i \in 1..Len(fields) |-> IF fields[i][1] = k THEN <<k, v>> ELSE fields[i]]
    ELSE Append(fields, <<k, v>>)

RECURSIVE ExtractLoop(_, _, _)
ExtractLoop(blocks, n, fields) ==
    IF n > Len(blocks) THEN fields
    ELSE ExtractLoop(blocks, n + 1,
            IF IsKeyBlock(blocks[n])
            THEN PutField(fields, KeyText(blocks, blocks[n]), ValText(blocks, blocks[n]))
            ELSE fields)

ExtractRaisesIndexError(blocks) ==
    \E i \in 1..Len(blocks) : IsKeyBlock(blocks[i]) /\ KeyBlockRaises(blocks[i])

\* the fields returned for response['Blocks'] = blocks
extract_from_textract(blocks) == ExtractLoop(blocks, 1, <<>>)

\* "\n".join([f"{k}: {v}" for k, v in textract_fields.items()])
RECURSIVE JoinFields(_)
JoinFields(fields) ==
    IF fields = <<>> THEN ""
    ELSE IF Len(fields) = 1 THEN fields[1][1] \o ": " \o fields[1][2]
    ELSE fields[1][1] \o ": " \o fields[1][2] \o "\n" \o JoinFields(Tail(fields))

---------------------------------------------------------------------------
(* generate_approval_conditions.  response_body is                          *)
(* [has_content, content], content a sequence of [has_text, text].         *)

\* response_body['content'][0]['text'].strip() if 'content' in response_body else "N/A"
GenerationResult(body) ==
    IF body.has_content
    THEN IF body.content = <<>> THEN Raise("IndexError")
         ELSE IF ~body.content[1].has_text THEN Raise("KeyError")
         ELSE Str(strip(body.content[1].text))
    ELSE Str("N/A")

\* the response bodies the model lets invoke_model return
BedrockBodies ==
    {[has_content |-> FALSE, content |-> <<>>],
     [has_content |-> TRUE, content |-> <<>>],
     [has_content |-> TRUE, content |-> <<[has_text |-> FALSE, text |-> ""]>>],
     [has_content |-> TRUE, content |-> <<[has_text |-> TRUE, text |-> " 1. Verify income. \n"]>>]}

FallbackSentinel == Str("Approval conditions not available.")

---------------------------------------------------------------------------
(* main(): one action per step between two external calls *)

Event(op, row, raised, arg, result) ==
    [op |-> op, row |-> row, raised |-> raised, arg |-> arg, result |-> result]

\* template_info["template"].render(**context): a function of template and context
Render(template, ctx) == [template |-> template, context |-> ctx]

CurRow == df[idx]

CurTemplateId == ResolveTemplateId(CurRow)

CurMapping == MappingOf(mappings, CurTemplateId)

InLoop == pc = "row" /\ idx <= Len(df)

\* a variant that extracts whenever a document location is present
NarrativeSourceAlwaysExtract(row) ==
    IF notnull(Get(row, "cam_s3_key", Null)) THEN "extract"
    ELSE IF notnull(Get(row, "cam_content", Null)) THEN "memo"
    ELSE "none"

\* lines 175-178: where the narrative text of a row comes from
NarrativeSource(row) ==
    IF notnull(Get(row, "cam_content", Null)) THEN "memo"
    ELSE IF notnull(Get(row, "cam_s3_key", Null)) THEN "extract"
    ELSE "none"

\* a variant that tests `cam_text is not None`
CallsGeneratorNotNone(text) == notnull(text)

\* `if cam_text:` decides between the generation call and the sentinel
CallsGenerator(text) == Truthy(text)

WithApproval(ctx, val) == Update(ctx, [approval_conditions |-> val])

\* the step after the source text is known: generation call or sentinel
Narrate(ctx, text) ==
    IF CallsGenerator(text)
    THEN /\ pc' = "generate"
         /\ context' = ctx
    ELSE /\ pc' = "emit"
         /\ context' = WithApproval(ctx, FallbackSentinel)

\* lines 83-152: read the inputs, merge, build template_map
Load ==
    /\ pc = "load"
    /\ df' = MergeChain(tables).rows
    /\ template_map' = BuildTemplateMap(catalog)
    /\ idx' = 1
    /\ pc' = "row"
    /\ UNCHANGED <<tables, catalog, documents, mappings, context, cam_text, response,
                   textract_fields, output_rows, saved, error, trace>>

\* lines 156-159: no template for the row's template id: `continue`
SkipRow ==
    /\ InLoop
    /\ ~HasTemplate(template_map, CurTemplateId)
    /\ idx' = idx + 1
    /\ trace' = Append(trace, Event("skip", idx, FALSE, Null, Null))
    /\ UNCHANGED <<tables, catalog, documents, mappings, pc, df, template_map, context,
                   cam_text, response, textract_fields, output_rows, saved, error>>

\* line 162: a computed rule raises; nothing in main() catches it
ResolveRaises ==
    /\ InLoop
    /\ HasTemplate(template_map, CurTemplateId)
    /\ MappingRaises(CurMapping, CurRow)
    /\ pc' = "aborted"
    /\ error' = MappingError(CurMapping, CurRow)
    /\ trace' = Append(trace, Event("resolve", idx, TRUE, Null, Null))
    /\ UNCHANGED <<tables, catalog, documents, mappings, df, template_map, idx, context,
                   cam_text, response, textract_fields, output_rows, saved>>

\* lines 161-188 up to the first external call
ResolveRow ==
    /\ InLoop
    /\ HasTemplate(template_map, CurTemplateId)
    /\ ~MappingRaises(CurMapping, CurRow)
    /\ LET ctx == ResolveContext(CurMapping, CurRow)
           src == NarrativeSource(CurRow)
       IN  CASE src = "memo" ->
                    /\ cam_text' = CurRow["cam_content"]
                    /\ Narrate(ctx, CurRow["cam_content"])
             [] src = "extract" ->
                    /\ cam_text' = Null
                    /\ context' = ctx
                    /\ pc' = "extract"
             [] OTHER ->
                    /\ cam_text' = Null
                    /\ Narrate(ctx, Null)
    /\ UNCHANGED <<tables, catalog, documents, mappings, df, template_map, idx, response,
                   textract_fields, output_rows, saved, error, trace>>

\* lines 179-181: analyze_document answers; fields are extracted and serialized
ExtractReturns ==
    /\ pc = "extract"
    /\ CurRow["cam_s3_key"].t = "str"
    /\ CurRow["cam_s3_key"].s \in DOMAIN documents
    /\ ~ExtractRaisesIndexError(documents[CurRow["cam_s3_key"].s])
    /\ LET blocks == documents[CurRow["cam_s3_key"].s]
           fields == extract_from_textract(blocks)
           text == Str(JoinFields(fields))
       IN  /\ response' = blocks
           /\ textract_fields' = fields
           /\ cam_text' = text
           /\ Narrate(context, text)
           /\ trace' = Append(trace, Event("extract", idx, FALSE, CurRow["cam_s3_key"], text))
    /\ UNCHANGED <<tables, catalog, documents, mappings, df, template_map, idx,
                   output_rows, saved, error>>

\* a variant in which the except clause is missing
ExtractRaisesUncaught ==
    /\ pc = "extract"
    /\ pc' = "aborted"
    /\ error' = "ServiceError"
    /\ trace' = Append(trace, Event("extract", idx, TRUE, CurRow["cam_s3_key"], Null))
    /\ UNCHANGED <<tables, catalog, documents, mappings, df, template_map, idx, context,
                   cam_text, response, textract_fields, output_rows, saved>>

\* lines 182-188: analyze_document (or the walk over its blocks) raises; the
\* except clause logs and goes on with cam_text = None
ExtractRaises ==
    /\ pc = "extract"
    /\ Narrate(context, cam_text)
    /\ trace' = Append(trace, Event("extract", idx, TRUE, CurRow["cam_s3_key"], Null))
    /\ UNCHANGED <<tables, catalog, documents, mappings, df, template_map, idx, cam_text,
                   response, textract_fields, output_rows, saved, error>>

\* line 186: invoke_model answers; an exception raised while reading the
\* response body leaves main()
GenerateReturns ==
    /\ pc = "generate"
    /\ \E body \in BedrockBodies :
          LET r == GenerationResult(body)
          IN  IF IsRaise(r)
              THEN /\ pc' = "aborted"
                   /\ error' = r.exc
                   /\ context' = context
                   /\ trace' = Append(trace, Event("generate", idx, TRUE, cam_text, Null))
              ELSE /\ pc' = "emit"
                   /\ error' = error
                   /\ context' = WithApproval(context, r)
                   /\ trace' = Append(trace, Event("generate", idx, FALSE, cam_text, r))
    /\ UNCHANGED <<tables, catalog, documents, mappings, df, template_map, idx, cam_text,
                   response, textract_fields, output_rows, saved>>

\* line 186: invoke_model raises; nothing in main() catches it
GenerateRaises ==
    /\ pc = "generate"
    /\ pc' = "aborted"
    /\ error' = "ServiceError"
    /\ trace' = Append(trace, Event("generate", idx, TRUE, cam_text, Null))
    /\ UNCHANGED <<tables, catalog, documents, mappings, df, template_map, idx, context,
                   cam_text, response, textract_fields, output_rows, saved>>

\* lines 197-212; agreement_id stands for the fresh uuid4
OutputRecord(row, tid, info, ctx, n) ==
    [agreement_id |-> Str("agreement-" \o NatStr(n)),
     cam_id |-> Get(row, "cam_id", Str("N/A")),
     application_id |-> row["application_id"],
     client_id |-> row["client_id"],
     client_name |-> Get(row, "full_name", Str("N/A")),
     template_id |-> tid,
     template_name |-> info.name,
     loan_type |-> Get(row, "loan_type", Str("N/A")),
     loan_amount |-> Get(ctx, "loan_amount", Str("N/A")),
     populated_agreement_content |-> Render(info.template, ctx),
     generation_date |-> defaults["agreement_date"],
     status |-> Str("Generated"),
     review_required |-> Str("Yes"),
     compliance_check |-> Str("Pending")]

\* lines 190-212: render and append the output record
EmitRow ==
    /\ pc = "emit"
    /\ output_rows' = Append(output_rows,
            OutputRecord(CurRow, CurTemplateId, template_map[CurTemplateId.s], context,
                         Len(output_rows) + 1))
    /\ trace' = Append(trace, Event("emit", idx, FALSE, Null, Null))
    /\ idx' = idx + 1
    /\ pc' = "row"
    /\ UNCHANGED <<tables, catalog, documents, mappings, df, template_map, context,
                   cam_text, response, textract_fields, saved, error>>

\* lines 214-219: the loop is over; the output set is written
Save ==
    /\ pc = "row"
    /\ idx > Len(df)
    /\ saved' = output_rows
    /\ pc' = "done"
    /\ UNCHANGED <<tables, catalog, documents, mappings, df, template_map, idx, context,
                   cam_text, response, textract_fields, output_rows, error, trace>>

Next ==
    \/ Load
    \/ SkipRow
    \/ ResolveRaises
    \/ ResolveRow
    \/ ExtractReturns
    \/ ExtractRaises
    \/ GenerateReturns
    \/ GenerateRaises
    \/ EmitRow
    \/ Save

---------------------------------------------------------------------------
(* Inputs: the record sets, the template catalog and the documents *)

Table(cols, rows) == [cols |-> cols, rows |-> rows]

AppId(i) == Str("APP-" \o NatStr(i))

T001 == Str("TEMPLATE-001")
T002 == Str("TEMPLATE-002")
T003 == Str("TEMPLATE-003")
\* in the template catalog, without a field-mapping rule set
T004 == Str("TEMPLATE-004")
\* in neither catalog
T999 == Str("TEMPLATE-999")

TemplateEntry(id, name) ==
    [template_id |-> id, template_name |-> name, template_content |-> "body of " \o id]

Catalog ==
    <<TemplateEntry("TEMPLATE-001", "Mortgage Agreement"),
      TemplateEntry("TEMPLATE-002", "Personal Loan Agreement"),
      TemplateEntry("TEMPLATE-003", "Secured Loan Agreement"),
      TemplateEntry("TEMPLATE-004", "Line of Credit Agreement")>>

LoanCols == {"application_id", "client_id", "template_id", "requested_amount", "loan_type"}
ClientCols == {"client_id", "full_name", "address_line1", "city", "state", "zip_code"}
BorrowCols == {"application_id", "client_id", "requested_amount", "property_value"}
UnderwritingCols == {"application_id", "client_id", "recommended_rate"}
MemoCols == {"application_id", "cam_id", "cam_content", "cam_s3_key"}
TermCols == {"application_id", "term_years", "estimated_monthly_payment"}

LoanRow(i, tid, amount) ==
    [application_id |-> AppId(i), client_id |-> Str("CL-1"), template_id |-> tid,
     requested_amount |-> amount, loan_type |-> Str("Mortgage")]

ClientRow(a1, city, state, zip) ==
    [client_id |-> Str("CL-1"), full_name |-> Str("Ada Lovelace"),
     address_line1 |-> a1, city |-> city, state |-> state, zip_code |-> zip]

BorrowRow(app, pv) ==
    [application_id |-> app, client_id |-> Str("CL-1"),
     requested_amount |-> Num(40000000), property_value |-> pv]

UnderwritingRow(i) ==
    [application_id |-> AppId(i), client_id |-> Str("CL-1"), recommended_rate |-> Num(650)]

MemoRow(i, content, key) ==
    [application_id |-> AppId(i), cam_id |-> Str("CAM-" \o NatStr(i)),
     cam_content |-> content, cam_s3_key |-> key]

FullClient == ClientRow(Str("12 Elm St"), Str("Albany"), Str("NY"), Num(1220700))

Rel(type, ids) == [Type |-> type, Ids |-> ids]

Word(id, text) ==
    [Id |-> id, BlockType |-> "WORD", EntityTypes |-> {}, Relationships |-> <<>>,
     HasText |-> TRUE, Text |-> text]

Selection(id) ==
    [Id |-> id, BlockType |-> "SELECTION_ELEMENT", EntityTypes |-> {},
     Relationships |-> <<>>, HasText |-> FALSE, Text |-> ""]

KeyValueSet(id, role, rels) ==
    [Id |-> id, BlockType |-> "KEY_VALUE_SET", EntityTypes |-> {role},
     Relationships |-> rels, HasText |-> FALSE, Text |-> ""]

Words ==
    <<Word("w_name", "Name"), Word("w_sp", " "), Word("w_age", "Age"),
      Word("w_bob", "Bob "), Word("w_al", "Al"), Selection("sel")>>

FormDocument ==
    <<KeyValueSet("k1", "KEY", <<Rel("VALUE", <<"v1">>), Rel("CHILD", <<"w_name">>)>>),
      KeyValueSet("v1", "VALUE", <<Rel("CHILD", <<"w_bob">>)>>)>> \o Words

\* what analyze_document returns for the documents the rows point at
Documents == ("cams/empty.pdf" :> <<>>) @@ ("cams/form.pdf" :> FormDocument)

CamCase(content, key) == [content |-> content, key |-> key]

CamCases ==
    {CamCase(Null, Null),
     CamCase(Null, Str("cams/empty.pdf")),
     CamCase(Null, Str("cams/form.pdf")),
     CamCase(Str(""), Null),
     CamCase(Str(""), Str("cams/form.pdf")),
     CamCase(Str("Income verified."), Null),
     CamCase(Str("Income verified."), Str("cams/form.pdf"))}

OrchestrationTemplates == {Null, T004, T999}

AmountCells == {Null, Num(40000000), Str("400000"), Str("abc")}

ValueCells == {Null, Num(50000000), Str("500000"), Str("abc")}

InitLocals ==
    /\ pc = "load"
    /\ df = <<>>
    /\ template_map = <<>>
    /\ idx = 0
    /\ context = <<>>
    /\ cam_text = Null
    /\ response = <<>>
    /\ textract_fields = <<>>
    /\ output_rows = <<>>
    /\ saved = Null
    /\ error = "none"
    /\ trace = <<>>

\* rows that differ in template id and in where their narrative comes from;
\* the second application has no underwriting decision and no term sheet
InitOrchestration ==
    \E n \in 1..MaxApps :
    \E tids \in [1..n -> OrchestrationTemplates] :
    \E cams \in [1..n -> CamCases] :
        tables =
            [loan_applications |-> Table(LoanCols, [i \in 1..n |-> LoanRow(i, tids[i], Num(40000000))]),
             clients |-> Table(ClientCols, <<FullClient>>),
             borrowing_requests |-> Table(BorrowCols, [i \in 1..n |-> BorrowRow(AppId(i), Num(50000000))]),
             underwriting_decisions |-> Table(UnderwritingCols, <<UnderwritingRow(1)>>),
             credit_approval_memos |-> Table(MemoCols, [i \in 1..n |-> MemoRow(i, cams[i].content, cams[i].key)]),
             term_sheets |-> Table(TermCols, <<>>)]

\* one application whose amounts and address parts vary
InitValues ==
    \E tid \in {T001, T002, T003} :
    \E amount \in AmountCells :
    \E pv \in ValueCells :
    \E addr \in [1..4 -> BOOLEAN] :
        tables =
            [loan_applications |-> Table(LoanCols, <<LoanRow(1, tid, amount)>>),
             clients |-> Table(ClientCols,
                <<ClientRow(IF addr[1] THEN Str("12 Elm St") ELSE Null,
                            IF addr[2] THEN Str("Albany") ELSE Null,
                            IF addr[3] THEN Str("NY") ELSE Null,
                            IF addr[4] THEN Num(1220700) ELSE Null)>>),
             borrowing_requests |-> Table(BorrowCols, <<BorrowRow(AppId(1), pv)>>),
             underwriting_decisions |-> Table(UnderwritingCols, <<UnderwritingRow(1)>>),
             credit_approval_memos |-> Table(MemoCols, <<>>),
             term_sheets |-> Table(TermCols, <<>>)]

BorrowRows(n) == {BorrowRow(AppId(i), pv) : i \in 1..(n + 1), pv \in {Num(50000000), Num(60000000)}}

\* record sets whose right-hand sides miss applications or repeat them
InitMerge ==
    \E n \in 1..MaxApps :
    \E k \in 0..MaxRight :
    \E brs \in [1..k -> BorrowRows(n)] :
    \E nclients \in 0..1 :
        /\ \A a, b \in 1..k : brs[a] = brs[b] => a = b
        /\ tables =
            [loan_applications |-> Table(LoanCols, [i \in 1..n |-> LoanRow(i, T001, Num(40000000))]),
             clients |-> Table(ClientCols, [i \in 1..nclients |-> FullClient]),
             borrowing_requests |-> Table(BorrowCols, brs),
             underwriting_decisions |-> Table(UnderwritingCols, <<UnderwritingRow(1)>>),
             credit_approval_memos |-> Table(MemoCols, <<>>),
             term_sheets |-> Table(TermCols, <<>>)]

Init ==
    /\ InitLocals
    /\ catalog = Catalog
    /\ documents = Documents
    /\ mappings = template_mappings
    /\ (InitOrchestration \/ InitValues \/ InitMerge)

Spec == Init /\ [][Next]_vars

---------------------------------------------------------------------------
(* The extraction step on its own: one application that points at a       *)
(* scanned document, over the documents a form analysis can return.       *)

KeyChoices == {<<>>, <<"w_name">>, <<"w_sp", "w_name">>, <<"w_age">>}

ValueChoices == {"none", "dangling", "nochild", "bob", "albob", "sel"}

ValueChildren(vc) ==
    CASE vc = "bob" -> <<"w_bob">>
      [] vc = "albob" -> <<"w_al", "w_sp", "w_bob">>
      [] vc = "sel" -> <<"sel">>
      [] OTHER -> <<>>

\* the KEY block of pair p and, when it has one, its VALUE block
PairBlocks(p, kc, vc) ==
    LET kid == "k" \o NatStr(p)
        vid == "v" \o NatStr(p)
        vrel == IF vc = "none" THEN <<>>
                ELSE IF vc = "dangling" THEN <<Rel("VALUE", <<"gone">>)>>
                ELSE <<Rel("VALUE", <<vid>>)>>
        crel == IF kc = <<>> THEN <<>> ELSE <<Rel("CHILD", kc)>>
        vchild == IF ValueChildren(vc) = <<>> THEN <<>>
                  ELSE <<Rel("CHILD", ValueChildren(vc))>>
    IN  <<KeyValueSet(kid, "KEY", vrel \o crel)>>
        \o (IF vc \in {"none", "dangling"} THEN <<>> ELSE <<KeyValueSet(vid, "VALUE", vchild)>>)

RECURSIVE ScanBlocks(_, _, _)
ScanBlocks(n, kcs, vcs) ==
    IF n = 0 THEN Words
    ELSE PairBlocks(Len(kcs) - n + 1, kcs[Len(kcs) - n + 1], vcs[Len(kcs) - n + 1])
         \o ScanBlocks(n - 1, kcs, vcs)

ScanKey == "cams/scan.pdf"

OneApplication(tid, content, key) ==
    [loan_applications |-> Table(LoanCols, <<LoanRow(1, tid, Num(40000000))>>),
     clients |-> Table(ClientCols, <<FullClient>>),
     borrowing_requests |-> Table(BorrowCols, <<BorrowRow(AppId(1), Num(50000000))>>),
     underwriting_decisions |-> Table(UnderwritingCols, <<UnderwritingRow(1)>>),
     credit_approval_memos |-> Table(MemoCols, <<MemoRow(1, content, key)>>),
     term_sheets |-> Table(TermCols, <<>>)]

InitExtract ==
    /\ InitLocals
    /\ catalog = Catalog
    /\ mappings = template_mappings
    /\ tables = OneApplication(T001, Null, Str(ScanKey))
    /\ \E n \in 0..MaxPairs :
       \E kcs \in [1..n -> KeyChoices] :
       \E vcs \in [1..n -> ValueChoices] :
            documents = (ScanKey :> ScanBlocks(n, kcs, vcs))

NextExtract == Load \/ ResolveRow \/ ExtractReturns

SpecExtract == InitExtract /\ [][NextExtract]_vars

---------------------------------------------------------------------------
(* The resolver on its own, over field-mapping rule sets: the catalog of   *)
(* the code extended by one rule set for TEMPLATE-004.                     *)

ExtensionTargets == {"borrower_name", "loan_amount", "lender_name", "grace_period"}

ExtensionSources == {"full_name", "requested_amount"}

InitResolver ==
    /\ InitLocals
    /\ catalog = Catalog
    /\ documents = Documents
    /\ tables = OneApplication(T004, Null, Null)
    /\ \E targets \in SUBSET ExtensionTargets :
       \E srcs \in [targets -> ExtensionSources] :
            mappings = template_mappings @@ ("TEMPLATE-004" :> [f \in targets |-> Col(srcs[f])])

NextResolver == Load \/ ResolveRow \/ EmitRow \/ Save

SpecResolver == InitResolver /\ [][NextResolver]_vars

---------------------------------------------------------------------------
(* Properties *)

EmitEvents == SelectSeq(trace, LAMBDA e : e.op = "emit")

\* the positions in output_rows of the records emitted for row i of df
OutputsOf(i) == {k \in 1..Len(output_rows) : k <= Len(EmitEvents) /\ EmitEvents[k].row = i}

ApprovalOf(rec) == rec.populated_agreement_content.context["approval_conditions"]

Calls(op, i) == {k \in 1..Len(trace) : trace[k].op = op /\ trace[k].row = i}

MemoOf(i) == Get(df[i], "cam_content", Null)

KeyOf(i) == Get(df[i], "cam_s3_key", Null)

\* C1: a failure raised by the generation call for a row is caught within the
\* row: the run is not aborted, the row carries the fallback sentinel and is
\* emitted, and the loop goes on.
C1_GenerationFailureCaught ==
    \A k \in 1..Len(trace) :
        (trace[k].op = "generate" /\ trace[k].raised) =>
            /\ pc # "aborted"
            /\ idx = trace[k].row =>
                    (pc = "emit" /\ context["approval_conditions"] = FallbackSentinel)
            /\ idx > trace[k].row =>
                    \E o \in OutputsOf(trace[k].row) : ApprovalOf(output_rows[o]) = FallbackSentinel

\* C2: when the extraction call of a row raises, the row still completes:
\* no generation call is made for it, it is not where the run stops, and it
\* is emitted exactly once, with the fallback sentinel and status "Generated".
C2_ExtractionFailureDegrades ==
    \A k \in 1..Len(trace) :
        (trace[k].op = "extract" /\ trace[k].raised) =>
            LET i == trace[k].row
            IN  /\ Calls("generate", i) = {}
                /\ idx >= i
                /\ idx = i => (pc = "emit" /\ context["approval_conditions"] = FallbackSentinel)
                /\ idx > i =>
                        /\ Cardinality(OutputsOf(i)) = 1
                        /\ \A o \in OutputsOf(i) :
                              /\ ApprovalOf(output_rows[o]) = FallbackSentinel
                              /\ output_rows[o].status = Str("Generated")

C2_Witness ==
    /\ pc = "done"
    /\ \E k \in 1..Len(trace) :
          /\ trace[k].op = "extract" /\ trace[k].raised
          /\ ~notnull(MemoOf(trace[k].row)) /\ notnull(KeyOf(trace[k].row))
          /\ \E o \in OutputsOf(trace[k].row) :
                /\ saved[o].status = Str("Generated")
                /\ ApprovalOf(saved[o]) = FallbackSentinel

\* C3: extraction is called only for a row whose memo text is null and whose
\* document location is not; a row with neither gets the fallback sentinel
\* and neither the extraction nor the generation call.
C3_NarrativeSourceSelection ==
    /\ \A k \in 1..Len(trace) :
          trace[k].op = "extract" =>
              (~notnull(MemoOf(trace[k].row)) /\ notnull(KeyOf(trace[k].row)))
    /\ pc = "extract" => (~notnull(MemoOf(idx)) /\ notnull(KeyOf(idx)))
    /\ \A i \in 1..Len(df) :
          (~notnull(MemoOf(i)) /\ ~notnull(KeyOf(i))) =>
              /\ Calls("extract", i) = {} /\ Calls("generate", i) = {}
              /\ idx = i => pc \notin {"extract", "generate"}
              /\ (idx = i /\ pc = "emit") => context["approval_conditions"] = FallbackSentinel
              /\ \A o \in OutputsOf(i) : ApprovalOf(output_rows[o]) = FallbackSentinel

C3_Witness ==
    /\ pc = "done"
    /\ \E i \in 1..Len(df) :
          /\ ~notnull(MemoOf(i)) /\ ~notnull(KeyOf(i))
          /\ \E o \in OutputsOf(i) : ApprovalOf(saved[o]) = FallbackSentinel
    /\ \E j \in 1..Len(df) :
          /\ notnull(MemoOf(j)) /\ notnull(KeyOf(j))
          /\ Calls("extract", j) = {}
          /\ OutputsOf(j) # {}

TemplateOf(i) == ResolveTemplateId(df[i])

InCatalog(i) == TemplateOf(i).t = "str" /\ TemplateOf(i).s \in DOMAIN template_map

HasRuleSet(i) == TemplateOf(i).t = "str" /\ TemplateOf(i).s \in DOMAIN mappings

C5_OneRowPerApplication ==
    pc # "load" =>
        /\ \A i, j \in 1..Len(df) : df[i]["application_id"] = df[j]["application_id"] => i = j
        /\ \A a \in 1..Len(tables.loan_applications.rows) :
              \E i \in 1..Len(df) :
                  df[i]["application_id"] = tables.loan_applications.rows[a]["application_id"]

\* C6: after the defaults are overlaid, every field the mapping resolved
\* still has its resolved (and formatted) value.
C6_DefaultsNeverOverride ==
    pc = "emit" =>
        \A f \in DOMAIN CurMapping :
            context[f] = ApplyFormatting(MappedContext(CurMapping, CurRow))[f]

AnyAddressPartNull(row) == \E i \in 1..4 : ~notnull(row[AddressParts[i]])

\* C7: for TEMPLATE-001, down_payment is "N/A" when property_value or
\* requested_amount is null, "$100,000.00" for 500000 and 400000, and
\* borrower_address is "N/A" when an address part is null.
C7_ComputedRulesNotAvailable ==
    (pc \in {"extract", "generate", "emit"} /\ CurTemplateId = T001) =>
        /\ (~notnull(CurRow["property_value"]) \/ ~notnull(CurRow["requested_amount"]))
              => context["down_payment"] = Str("N/A")
        /\ (CurRow["property_value"] = Num(50000000) /\ CurRow["requested_amount"] = Num(40000000))
              => context["down_payment"] = Str("$100,000.00")
        /\ AnyAddressPartNull(CurRow) => context["borrower_address"] = Str("N/A")

NonNumeric(val) == val.t = "str" /\ IsRaise(float(val))

\* C8: format_currency and format_percentage give "N/A" for a null or
\* non-numeric value and never raise, so a non-numeric value in a currency
\* field of a row never stops the run at that row.
C8_NonNumericNeverAborts ==
    /\ \A v \in AmountCells \cup ValueCells :
          /\ ~IsRaise(format_currency(v)) /\ ~IsRaise(format_percentage(v))
          /\ (~notnull(v) \/ NonNumeric(v)) =>
                (format_currency(v) = Str("N/A") /\ format_percentage(v) = Str("N/A"))
    /\ \A i \in 1..Len(df) :
          (NonNumeric(df[i]["property_value"]) \/ NonNumeric(df[i]["requested_amount"]))
              => ~(pc = "aborted" /\ idx = i)

KeyBlocks(B) == {i \in 1..Len(B) : B[i].BlockType = "KEY_VALUE_SET" /\ "KEY" \in B[i].EntityTypes}

\* the trimmed label of KEY block i: the texts of its CHILD fragments
LabelOf(B, i) == strip(ChildText(B, B[i].Relationships))

\* the value the claim gives KEY block i
ValueOf(B, i) ==
    LET vrels == SelectSeq(B[i].Relationships, LAMBDA r : r.Type = "VALUE")
    IN  IF vrels = <<>> THEN ""
        ELSE LET targets == SelectSeq(B, LAMBDA b : b.Id = vrels[1].Ids[1])
             IN  IF targets = <<>> THEN ""
                 ELSE IF SelectSeq(targets[Len(targets)].Relationships,
                                   LAMBDA r : r.Type = "CHILD") = <<>> THEN ""
                 ELSE strip(ChildText(B, targets[Len(targets)].Relationships))

LastWithLabel(B, label) ==
    CHOOSE i \in KeyBlocks(B) :
        /\ LabelOf(B, i) = label
        /\ \A j \in KeyBlocks(B) : LabelOf(B, j) = label => j <= i

\* C9: the extracted mapping has one entry per distinct trimmed label of the
\* KEY blocks; its value is the trimmed text of the paired VALUE block's
\* children, or "" when the pairing, the VALUE block or its children are
\* missing; of two KEY blocks with one label the later one gives the value.
C9_ExtractedFields ==
    (pc \in {"generate", "emit"} /\ Len(trace) > 0 /\ trace[Len(trace)].op = "extract"
        /\ ~trace[Len(trace)].raised) =>
        /\ {textract_fields[j][1] : j \in 1..Len(textract_fields)}
              = {LabelOf(response, i) : i \in KeyBlocks(response)}
        /\ \A a, b \in 1..Len(textract_fields) :
              textract_fields[a][1] = textract_fields[b][1] => a = b
        /\ \A j \in 1..Len(textract_fields) :
              textract_fields[j][2]
                  = ValueOf(response, LastWithLabel(response, textract_fields[j][1]))

\* two KEY blocks labelled "Name": the first paired with "Bob", the later
\* one without a VALUE relationship, and the mapping holds "" for "Name"
C9_Witness ==
    /\ pc = "generate"
    /\ Len(trace) > 0 /\ trace[Len(trace)].op = "extract"
    /\ Cardinality(KeyBlocks(response)) = 2
    /\ \E i, j \in KeyBlocks(response) :
          /\ i < j
          /\ LabelOf(response, i) = "Name" /\ LabelOf(response, j) = "Name"
          /\ ValueOf(response, i) = "Bob" /\ ~HasValueRel(response[j])
    /\ textract_fields = <<<<"Name", "">>>>

NonEmptyText(val) == val.t = "str" /\ val.s # ""

\* the source text obtained for row i: the memo text, else what a successful
\* extraction serialized, else none
SourceText(i) ==
    IF notnull(MemoOf(i)) THEN MemoOf(i)
    ELSE IF \E k \in Calls("extract", i) : ~trace[k].raised
         THEN trace[CHOOSE k \in Calls("extract", i) : ~trace[k].raised].result
         ELSE Null

\* row i is past the point where main() decides whether to call the generator
Decided(i) ==
    \/ OutputsOf(i) # {}
    \/ Calls("generate", i) # {}
    \/ (idx = i /\ pc \in {"generate", "emit"})

GenerationCalled(i) == Calls("generate", i) # {} \/ (idx = i /\ pc = "generate")

\* C10: the generation call is made for a row exactly when the source text
\* obtained is non-empty; an emitted record carries the generator's return
\* value or the fallback sentinel; a row has at most one extraction call and
\* at most one generation call.
C10_GenerationIffSourceText ==
    \A i \in 1..Len(df) :
        /\ Decided(i) => (GenerationCalled(i) <=> NonEmptyText(SourceText(i)))
        /\ \A o \in OutputsOf(i) :
              IF NonEmptyText(SourceText(i))
              THEN \E k \in Calls("generate", i) :
                      ~trace[k].raised /\ ApprovalOf(output_rows[o]) = trace[k].result
              ELSE ApprovalOf(output_rows[o]) = FallbackSentinel
        /\ Cardinality(Calls("extract", i)) <= 1
        /\ Cardinality(Calls("generate", i)) <= 1

\* one row whose extraction returned no pairs and was emitted with the
\* sentinel, another whose text went to the generator and came back
C10_Witness ==
    /\ pc = "done"
    /\ \E i \in 1..Len(df) :
          /\ \E k \in Calls("extract", i) : ~trace[k].raised /\ trace[k].result = Str("")
          /\ Calls("generate", i) = {}
          /\ \E o \in OutputsOf(i) : ApprovalOf(saved[o]) = FallbackSentinel
    /\ \E j \in 1..Len(df) :
          /\ Calls("generate", j) # {}
          /\ \E o \in OutputsOf(j) : ApprovalOf(saved[o]) = Str("1. Verify income.")

=============================================================================
